---------------------------- MODULE Spec2Model ----------------------------
(***************************************************************************)
(* A model of TUMmer: the option loop of main (tummer.c), the driver run,  *)
(* the anchor finder dist_anchor and the statistics helpers (process.c).   *)
(*                                                                         *)
(* Positions are zero-based as in the C code; TLA+ sequences are one-based *)
(* so the character at C position p of a string X is X[p + 1].             *)
(* The enhanced suffix array (esa.c), the subject form and revcomp         *)
(* (sequence.c) and the flag bits (global.h) are not among the sources;    *)
(* they are modelled from the specification's description.                 *)
(***************************************************************************)
EXTENDS Integers, Sequences, FiniteSets, TLC

(***************************************************************************)
(* Bounds of the model.                                                    *)
(***************************************************************************)
MaxRefLen == 3      \* longest reference s of the anchor specification
MaxQueryLen == 4    \* longest query of the anchor specification
MaxMinLength == 2   \* largest in-range -l value of the anchor specification
MaxX == 3           \* shuprop reaches 1 at x = MaxX at the latest
Scale == 20         \* probabilities are multiples of 1/Scale
MaxOpts == 3        \* options on one command line
MaxN == 30          \* largest n of binomial_coefficient(n, k)
MaxSeqs == 3        \* sequences handed to run

VARIABLES
    FLAGS,              \* tummer.c: int FLAGS, as the set of the bits that are set
    MIN_LENGTH,         \* tummer.c: int MIN_LENGTH
    RANDOM_ANCHOR_PROP, \* tummer.c: double RANDOM_ANCHOR_PROP, in units of 1/Scale
    optHist,            \* the options main has processed so far, in order
    userLen,            \* the value strtoul returned for the last accepted -l
    shupropTab,         \* x |-> shuprop(x, gc / 2, len) of the subject at hand
    anchorLen,          \* the value returned by minAnchorLength, or -1
    sequences,          \* run: the array seq_t *sequences (entry 1 is sequences[0])
    j,                  \* run: the loop variable j
    pc,                 \* the position of the program
    esa,                \* run: esa_s E, or NoEsa while it does not exist
    esaBuilds,          \* number of times the index has been built
    pass,               \* which call of dist_anchor is running: "fwd" or "rev"
    query,              \* dist_anchor: query
    threshold,          \* dist_anchor: size_t threshold, as 64-bit limbs
    this_pos_Q,         \* dist_anchor: this_pos_Q at the loop head
    iters,              \* number of iterations of the main loop so far
    lastIter,           \* what the last iteration of the main loop did
    oobRead,            \* TRUE once C->S has been read at an index below 0
    out,                \* the lines written to stdout, in order
    bn, bk,             \* arguments of binomial_coefficient
    row,                \* row bn of Pascal's triangle
    binom               \* what binomial_coefficient(bn, bk) did

vars == <<FLAGS, MIN_LENGTH, RANDOM_ANCHOR_PROP, optHist, userLen, shupropTab,
          anchorLen, sequences, j, pc, esa, esaBuilds, pass, query, threshold,
          this_pos_Q, iters, lastIter, oobRead, out, bn, bk, row, binom>>

optVars == <<FLAGS, MIN_LENGTH, RANDOM_ANCHOR_PROP, optHist, userLen>>
runVars == <<sequences, j, esa, esaBuilds, pass>>
anchorVars == <<query, threshold, this_pos_Q, iters, lastIter, oobRead, out>>
binomVars == <<bn, bk, row, binom>>

(***************************************************************************)
(* 64-bit unsigned integers (size_t, unsigned long) as four 16-bit limbs,  *)
(* least significant first.                                                *)
(***************************************************************************)
Limb == 2^16

U64(v) == <<v % Limb, (v \div Limb) % Limb, 0, 0>>

U64Small(u) == u[2] = 0 /\ u[3] = 0 /\ u[4] = 0

\* a >= u for a small non-negative a held in a size_t
GeU64(a, u) == U64Small(u) /\ a >= u[1]

\* (u * m) mod 2^64 and the carry out of the top limb
MulSmall(u, m) ==
    LET t1 == u[1] * m
        t2 == u[2] * m + (t1 \div Limb)
        t3 == u[3] * m + (t2 \div Limb)
        t4 == u[4] * m + (t3 \div Limb)
    IN  [val |-> <<t1 % Limb, t2 % Limb, t3 % Limb, t4 % Limb>>,
         carry |-> t4 \div Limb]

\* u / d and u % d
DivSmall(u, d) ==
    LET c4 == u[4]
        c3 == (c4 % d) * Limb + u[3]
        c2 == (c3 % d) * Limb + u[2]
        c1 == (c2 % d) * Limb + u[1]
    IN  [val |-> <<c1 \div d, c2 \div d, c3 \div d, c4 \div d>>,
         rem |-> c1 % d]

\* unsigned long -> int (implementation-defined; as gcc and clang do it):
\* the low 32 bits, read as two's complement
ToInt(u) ==
    IF u[2] >= Limb \div 2 THEN (u[2] - Limb) * Limb + u[1]
    ELSE u[2] * Limb + u[1]

\* int -> size_t: sign extension to 64 bits
ToSizeT(i) ==
    IF i >= 0 THEN <<i % Limb, i \div Limb, 0, 0>>
    ELSE <<i % Limb, (i \div Limb) + Limb, Limb - 1, Limb - 1>>

Min(A) == CHOOSE a \in A : \A b \in A : a <= b
Max(A) == CHOOSE a \in A : \A b \in A : a >= b

(***************************************************************************)
(* Sequences, the subject form and the enhanced suffix array.              *)
(***************************************************************************)
Bases == {"A", "C"}    \* the characters the generated inputs are made of

\* all strings over Bases of length 1..n (main rejects empty sequences)
Strs(n) == UNION {[1..k -> Bases] : k \in 1..n}

Reverse(s) == [k \in 1..Len(s) |-> s[Len(s) + 1 - k]]

Complement(c) ==
    CASE c = "A" -> "T" [] c = "T" -> "A" [] c = "C" -> "G" [] c = "G" -> "C"
      [] OTHER -> "N"

revcomp(s) == [k \in 1..Len(s) |-> Complement(s[Len(s) + 1 - k])]

\* the order of the bytes: '#' < '$' < every alphabet symbol
Rank(c) ==
    CASE c = "#" -> 0 [] c = "$" -> 1 [] c = "A" -> 2 [] c = "C" -> 3
      [] c = "G" -> 4 [] c = "N" -> 5 [] c = "T" -> 6

\* the subject form  s # reverse(s) $
to_subject(s) == s \o <<"#">> \o Reverse(s) \o <<"$">>

\* length of the longest common prefix of X[a..] and Y[b..]
RECURSIVE Lcp(_, _, _, _)
Lcp(X, a, Y, b) ==
    IF a < Len(X) /\ b < Len(Y) /\ X[a + 1] = Y[b + 1]
    THEN 1 + Lcp(X, a + 1, Y, b + 1)
    ELSE 0

\* suffix a of S sorts before suffix b of S ('$' ends S and occurs once)
SufLess(S, a, b) ==
    LET l == Lcp(S, a, S, b)
    IN  /\ a # b
        /\ IF a + l >= Len(S) THEN TRUE
           ELSE IF b + l >= Len(S) THEN FALSE
           ELSE Rank(S[a + l + 1]) < Rank(S[b + l + 1])

\* SA: entry r + 1 is SA[r], the start of the suffix of rank r
SuffixArray(S) ==
    [r \in 1..Len(S) |->
        CHOOSE p \in 0..(Len(S) - 1) :
            Cardinality({q \in 0..(Len(S) - 1) : SufLess(S, q, p)}) = r - 1]

NoEsa == [S |-> <<>>, SA |-> <<>>]

esa_init(s) == LET S == to_subject(s) IN [S |-> S, SA |-> SuffixArray(S)]

(***************************************************************************)
(* get_match_cached: the LCP interval of the longest prefix of q that      *)
(* occurs in S, and the matched length.  i and j are zero-based ranks.     *)
(***************************************************************************)
get_match_cached(C, q) ==
    LET n == Len(C.S)
        L == Max({Lcp(C.S, p, q, 0) : p \in 0..(n - 1)})
        I == {r \in 0..(n - 1) : Lcp(C.S, C.SA[r + 1], q, 0) >= L}
    IN  [i |-> Min(I), j |-> Max(I), l |-> L]

\* the part of X from C position a on
Suffix(X, a) == SubSeq(X, a + 1, Len(X))

(***************************************************************************)
(* Random-match statistics.                                                *)
(***************************************************************************)
\* shuprop(x, g, l) for the subject at hand, in units of 1/Scale.  The
\* floating-point sum is not modelled: the table is any non-decreasing
\* function that reaches 1, which is all minAnchorLength relies on.
shuprop(x, g, l) == IF x \in DOMAIN shupropTab THEN shupropTab[x] ELSE Scale

ShupropTabs ==
    {f \in [1..MaxX -> 0..Scale] :
        /\ f[MaxX] = Scale
        /\ \A x \in 1..(MaxX - 1) : f[x] <= f[x + 1]}

\* tummer.c line 45: RANDOM_ANCHOR_PROP = 0.05
DefaultProp == Scale \div 20

\* the table used where the statistics are not what is varied
DefaultTab == [x \in 1..MaxX |-> IF x = 1 THEN 0 ELSE Scale]

\* line 79-82: the loop of binomial_coefficient on size_t, with a note of
\* whether a product left 64 bits or a division left a remainder
RECURSIVE BinomLoop(_, _, _, _)
BinomLoop(n, k, i, acc) ==
    IF i <= k
    THEN LET m == MulSmall(acc.res, n - k + i)
             d == DivSmall(m.val, i)
         IN  IF m.carry = 0 /\ d.rem = 0
             THEN BinomLoop(n, k, i + 1, [acc EXCEPT !.res = d.val])
             ELSE BinomLoop(n, k, i + 1,
                            [res |-> d.val,
                             overflow |-> acc.overflow \/ m.carry # 0,
                             inexact |-> acc.inexact \/ d.rem # 0])
    ELSE acc

BinomResult(v) == [res |-> U64(v), overflow |-> FALSE, inexact |-> FALSE]

\* line 64-85; res is the value returned
binomial_coefficient(n, k) ==
    IF n <= 0 \/ k > n THEN BinomResult(0)
    ELSE IF k = 0 \/ k = n THEN BinomResult(1)
    ELSE BinomLoop(n, IF k > n - k THEN n - k ELSE k, 1, BinomResult(1))

RECURSIVE MalLoop(_, _, _, _, _)
MalLoop(x, prop, p, g, l) ==
    IF prop < Scale - p
    THEN MalLoop(x + 1, shuprop(x, g, l), p, g, l)
    ELSE x

\* minAnchorLength with x returned as it was before the increment
minAnchorLengthNoIncrement(p, g, l) ==
    LET x == MalLoop(1, 0, p, g, l) IN IF x > 1 THEN x - 1 ELSE x

minAnchorLength(p, g, l) == MalLoop(1, 0, p, g, l)

(***************************************************************************)
(* dist_anchor (process.c).                                                *)
(***************************************************************************)
\* the flag bits of global.h, one name per bit
F_FORWARD == "F_FORWARD"
F_REVCOMP == "F_REVCOMP"
F_JOIN == "F_JOIN"
F_VERBOSE == "F_VERBOSE"
F_EXTRA_VERBOSE == "F_EXTRA_VERBOSE"

\* a byte that is none of the characters of a query
OtherByte == "?"
StrayBytes == Bases \cup {OtherByte}

\* C->S[idx]; below[k] is the byte k places before the start of S, which
\* the program never wrote: reading it is undefined, any byte may come back
ReadS(S, idx, below) == IF idx >= 0 THEN S[idx + 1] ELSE below[-idx]

\* line 161-166: the left extension.  pos_S is the value of the size_t
\* this_pos_S taken modulo 2^64 (-1 stands for SIZE_MAX, and so on); low is
\* the lowest index at which S has been read.
RECURSIVE LeftExtend(_, _, _, _, _, _, _)
LeftExtend(S, q, pos_S, pos_Q, len, below, low) ==
    IF pos_Q > 0
    THEN IF q[pos_Q] = ReadS(S, pos_S - 1, below)
         THEN LeftExtend(S, q, pos_S - 1, pos_Q - 1, len + 1, below,
                         Min({low, pos_S - 1}))
         ELSE [pos_S |-> pos_S, pos_Q |-> pos_Q, len |-> len,
               low |-> Min({low, pos_S - 1})]
    ELSE [pos_S |-> pos_S, pos_Q |-> pos_Q, len |-> len, low |-> low]

\* the bytes below S that an iteration can read: none unless the extension
\* inside S arrives at this_pos_S = 0 with this_pos_Q > 0
BelowChoices(S, q, pos_S, pos_Q) ==
    LET inb == LeftExtend(S, q, pos_S, pos_Q, 0, [k \in 1..1 |-> OtherByte], 0)
    IN  IF inb.low < 0
        THEN [1..inb.pos_Q -> StrayBytes]
        ELSE {[k \in 1..1 |-> OtherByte]}

\* Emits with the comparison of the length made strict
EmitsStrict(inter, len, thr) ==
    inter.i = inter.j /\ GeU64(len, thr) /\ ~(U64Small(thr) /\ len = thr[1])

\* line 168: the condition under which a line is printed
Emits(inter, len, thr) == inter.i = inter.j /\ GeU64(len, thr)

\* Advance without the step past the mismatch
AdvanceNoSkip(pos_Q, len) == pos_Q + len

\* line 174: the advance
Advance(pos_Q, len) == pos_Q + len + 1

\* line 147-151: the threshold
Threshold(minLength, p, g, l) ==
    IF minLength # 0 THEN ToSizeT(minLength)
    ELSE U64(minAnchorLength(p, g, l))

MatchLine(seq, ps, pS, pQ, len) ==
    [kind |-> "match", seq |-> seq, pass |-> ps,
     pos_S |-> pS, pos_Q |-> pQ, len |-> len]

NoIter == [start |-> -1, lookup |-> 0, i |-> 0, j |-> 0, pos_S |-> 0,
           pos_Q |-> 0, len |-> 0, printed |-> FALSE]

DistAnchorEnter ==
    /\ pc = "da_enter"
    /\ threshold' = Threshold(MIN_LENGTH, RANDOM_ANCHOR_PROP, 0, Len(esa.S))
    /\ this_pos_Q' = 0
    /\ iters' = 0
    /\ lastIter' = NoIter
    /\ pc' = "da_loop"
    /\ UNCHANGED <<optVars, shupropTab, anchorLen, runVars, query, oobRead,
                   out, binomVars>>

\* one iteration of the loop of line 154-175.  The conjunct on iters caps
\* the number of iterations of the model; the code has no such test and
\* never comes near it.
AnchorIter ==
    /\ pc = "da_loop"
    /\ this_pos_Q < Len(query)
    /\ iters <= Len(query) + 1
    /\ LET inter == get_match_cached(esa, Suffix(query, this_pos_Q))
           this_length == IF inter.l <= 0 THEN 0 ELSE inter.l
           this_pos_S == esa.SA[inter.i + 1]
       IN  \E below \in BelowChoices(esa.S, query, this_pos_S, this_pos_Q) :
             LET e == LeftExtend(esa.S, query, this_pos_S, this_pos_Q,
                                 this_length, below, this_pos_S)
                 prints == Emits(inter, e.len, threshold)
             IN  /\ out' = IF prints
                           THEN Append(out, MatchLine(j, pass, e.pos_S,
                                                      e.pos_Q, e.len))
                           ELSE out
                 /\ oobRead' = (oobRead \/ e.low < 0)
                 /\ this_pos_Q' = Advance(e.pos_Q, e.len)
                 /\ lastIter' = [start |-> this_pos_Q, lookup |-> this_length,
                                 i |-> inter.i, j |-> inter.j,
                                 pos_S |-> e.pos_S, pos_Q |-> e.pos_Q,
                                 len |-> e.len, printed |-> prints]
    /\ iters' = iters + 1
    /\ UNCHANGED <<optVars, shupropTab, anchorLen, runVars, query, threshold,
                   pc, binomVars>>

\* line 133-135: last_pos_S and last_length are set once and never changed
last_pos_S == 0
last_length == 0

\* the loop exit and the special case of line 178-180
AnchorExit ==
    /\ pc = "da_loop"
    /\ ~(this_pos_Q < Len(query))
    /\ out' = IF last_length >= Len(query)
              THEN Append(out, [kind |-> "identical", seq |-> j,
                                pass |-> pass, pos_S |-> last_pos_S,
                                pos_Q |-> 0, len |-> Len(query)])
              ELSE out
    /\ pc' = "da_return"
    /\ UNCHANGED <<optVars, shupropTab, anchorLen, runVars, query, threshold,
                   this_pos_Q, iters, lastIter, oobRead, binomVars>>

(***************************************************************************)
(* The anchor specification: dist_anchor on every reference s and query Q  *)
(* within the bounds, with -l values that fit an int.                      *)
(***************************************************************************)
InitAnchor ==
    /\ FLAGS = {F_FORWARD}
    /\ MIN_LENGTH \in 0..MaxMinLength
    /\ RANDOM_ANCHOR_PROP = DefaultProp
    /\ optHist = <<>>
    /\ userLen = U64(0)
    /\ shupropTab = DefaultTab
    /\ anchorLen = -1
    /\ \E s \in Strs(MaxRefLen) :
         /\ esa = esa_init(s)
         /\ \E Q \in Strs(MaxQueryLen) :
              /\ sequences = <<s, Q>>
              /\ query = Q
    /\ j = 1
    /\ pc = "da_enter"
    /\ esaBuilds = 1
    /\ pass = "fwd"
    /\ threshold = U64(0)
    /\ this_pos_Q = 0
    /\ iters = 0
    /\ lastIter = NoIter
    /\ oobRead = FALSE
    /\ out = <<>>
    /\ bn = 0 /\ bk = 0 /\ row = <<1>> /\ binom = 0

NextAnchor == DistAnchorEnter \/ AnchorIter \/ AnchorExit

SpecAnchor == InitAnchor /\ [][NextAnchor]_vars

(***************************************************************************)
(* Properties of dist_anchor.                                              *)
(***************************************************************************)
MatchLines == {k \in 1..Len(out) : out[k].kind = "match"}

\* the number of places of S at which the string w occurs
Occurrences(S, w) ==
    Cardinality({p \in 0..(Len(S) - Len(w)) : Lcp(S, p, w, 0) = Len(w)})

\* the line describes a match that lies in S and in the query, is equal
\* character by character and occurs once in S
RealUniqueMatch(S, q, m) ==
    /\ m.pos_S >= 0 /\ m.pos_S + m.len <= Len(S)
    /\ m.pos_Q >= 0 /\ m.pos_Q + m.len <= Len(q)
    /\ \A k \in 1..m.len : S[m.pos_S + k] = q[m.pos_Q + k]
    /\ m.len > 0 =>
         Occurrences(S, SubSeq(q, m.pos_Q + 1, m.pos_Q + m.len)) = 1

\* C1: every line printed by the main loop describes a real match that is
\* unique in S, and an iteration whose lookup returned i < j prints nothing.
C1_RealUniqueMatches ==
    /\ \A k \in MatchLines : RealUniqueMatch(esa.S, query, out[k])
    /\ lastIter.i < lastIter.j => ~lastIter.printed

LeftMaximal(S, q, m) ==
    \/ m.pos_S = 0
    \/ m.pos_Q = 0
    \/ /\ m.pos_S > 0 /\ m.pos_Q > 0
       /\ S[m.pos_S] # q[m.pos_Q]

RightMaximal(S, q, m) ==
    \/ m.pos_S + m.len = Len(S)
    \/ m.pos_Q + m.len = Len(q)
    \/ /\ m.pos_S + m.len \in 0..(Len(S) - 1)
       /\ m.pos_Q + m.len \in 0..(Len(q) - 1)
       /\ S[m.pos_S + m.len + 1] # q[m.pos_Q + m.len + 1]

\* C2: every printed match is maximal to the left and to the right.
C2_Maximal ==
    \A k \in MatchLines :
        LeftMaximal(esa.S, query, out[k]) /\ RightMaximal(esa.S, query, out[k])

\* C8: the left extension never reads S at an index below 0.
C8_NoReadBelowZero == oobRead = FALSE

\* C9: every iteration ends with the cursor at its start plus the looked-up
\* length plus 1, hence strictly further right, and a query of length m is
\* finished after at most m iterations.
C9_LinearProgress ==
    /\ lastIter.start >= 0 =>
         /\ this_pos_Q = lastIter.start + lastIter.lookup + 1
         /\ this_pos_Q > lastIter.start
    /\ iters <= Len(query)

\* C9 witness: a second iteration in which the left extension moved the
\* cursor back has run.
C9_Witness ==
    /\ iters >= 2
    /\ lastIter.pos_Q < lastIter.start
    /\ this_pos_Q > lastIter.start

\* every position of the query lies inside a printed match
Covered ==
    \A p \in 0..(Len(query) - 1) :
        \E k \in MatchLines : out[k].pos_Q <= p /\ p < out[k].pos_Q + out[k].len

StartsBoth ==
    \E k \in MatchLines :
        out[k].pos_S = 0 /\ out[k].pos_Q = 0 /\ GeU64(out[k].len, threshold)

\* C4 as claimed: a query identical to the reference s, |s| >= the
\* threshold, yields a match from position 1 of both that covers the query.
C4_IdenticalAnyReference ==
    (pc = "da_return" /\ query = sequences[1]
       /\ GeU64(Len(query), threshold))
    => (StartsBoth /\ Covered)

\* C4 amended: the same for every s that differs from its own reverse.
C4_IdenticalNonPalindrome ==
    (pc = "da_return" /\ query = sequences[1]
       /\ GeU64(Len(query), threshold)
       /\ sequences[1] # Reverse(sequences[1]))
    => (StartsBoth /\ Covered)

\* C4 witness: such a run has ended with the one line for the whole query.
C4_Witness ==
    /\ pc = "da_return" /\ query = sequences[1]
    /\ sequences[1] # Reverse(sequences[1])
    /\ Len(query) = threshold[1] /\ U64Small(threshold)
    /\ Len(out) = 1 /\ out[1].len = Len(query)

(***************************************************************************)
(* run (process.c).                                                        *)
(***************************************************************************)
HeaderLine(seq, ps) ==
    [kind |-> "header", seq |-> seq, pass |-> ps,
     pos_S |-> 0, pos_Q |-> 0, len |-> 0]

\* IsSubject of a loop that does not skip the subject
NeverSubject(jj) == FALSE

\* line 198: j == i, with i = 0 the subject
IsSubject(jj) == jj = 0

\* line 188-195: the index of sequences[0] is built
BuildIndex ==
    /\ pc = "run_start"
    /\ esa' = esa_init(sequences[1])
    /\ esaBuilds' = esaBuilds + 1
    /\ j' = 0
    /\ pc' = "run_loop"
    /\ UNCHANGED <<optVars, shupropTab, anchorLen, sequences, pass,
                   anchorVars, binomVars>>

\* line 198-200: continue
SkipSubject ==
    /\ pc = "run_loop"
    /\ j < Len(sequences)
    /\ IsSubject(j)
    /\ j' = j + 1
    /\ UNCHANGED <<optVars, shupropTab, anchorLen, sequences, esa, esaBuilds,
                   pass, pc, anchorVars, binomVars>>

\* line 210-212: the header of the forward pass and the call of dist_anchor
ForwardPass ==
    /\ pc = "run_loop"
    /\ j < Len(sequences)
    /\ ~IsSubject(j)
    /\ F_FORWARD \in FLAGS
    /\ out' = Append(out, HeaderLine(j, "fwd"))
    /\ query' = sequences[j + 1]
    /\ pass' = "fwd"
    /\ pc' = "da_enter"
    /\ UNCHANGED <<optVars, shupropTab, anchorLen, sequences, j, esa,
                   esaBuilds, threshold, this_pos_Q, iters, lastIter, oobRead,
                   binomVars>>

NoForwardPass ==
    /\ pc = "run_loop"
    /\ j < Len(sequences)
    /\ ~IsSubject(j)
    /\ F_FORWARD \notin FLAGS
    /\ pc' = "run_rev"
    /\ UNCHANGED <<optVars, shupropTab, anchorLen, runVars, anchorVars,
                   binomVars>>

ForwardReturn ==
    /\ pc = "da_return"
    /\ pass = "fwd"
    /\ pc' = "run_rev"
    /\ UNCHANGED <<optVars, shupropTab, anchorLen, runVars, anchorVars,
                   binomVars>>

\* line 215-219: the header of the reverse pass and the call of dist_anchor
ReversePass ==
    /\ pc = "run_rev"
    /\ F_REVCOMP \in FLAGS
    /\ out' = Append(out, HeaderLine(j, "rev"))
    /\ query' = revcomp(sequences[j + 1])
    /\ pass' = "rev"
    /\ pc' = "da_enter"
    /\ UNCHANGED <<optVars, shupropTab, anchorLen, sequences, j, esa,
                   esaBuilds, threshold, this_pos_Q, iters, lastIter, oobRead,
                   binomVars>>

NoReversePass ==
    /\ pc = "run_rev"
    /\ F_REVCOMP \notin FLAGS
    /\ j' = j + 1
    /\ pc' = "run_loop"
    /\ UNCHANGED <<optVars, shupropTab, anchorLen, sequences, esa, esaBuilds,
                   pass, anchorVars, binomVars>>

\* line 220-222: free(R) and the next j
ReverseReturn ==
    /\ pc = "da_return"
    /\ pass = "rev"
    /\ j' = j + 1
    /\ pc' = "run_loop"
    /\ UNCHANGED <<optVars, shupropTab, anchorLen, sequences, esa, esaBuilds,
                   pass, anchorVars, binomVars>>

\* line 224-225: the index is released after the loop
FreeIndex ==
    /\ pc = "run_loop"
    /\ ~(j < Len(sequences))
    /\ esa' = NoEsa
    /\ pc' = "run_done"
    /\ UNCHANGED <<optVars, shupropTab, anchorLen, sequences, j, esaBuilds,
                   pass, anchorVars, binomVars>>

RunNext ==
    \/ BuildIndex \/ SkipSubject \/ ForwardPass \/ NoForwardPass
    \/ ForwardReturn \/ ReversePass \/ NoReversePass \/ ReverseReturn
    \/ FreeIndex \/ DistAnchorEnter \/ AnchorIter \/ AnchorExit

(***************************************************************************)
(* The run specification: run on two to MaxSeqs sequences and each choice  *)
(* of passes, with -l 1 or -l 2.                                           *)
(***************************************************************************)
RunPool == {<<"A", "C">>, <<"C", "A">>, <<"A">>, <<"G", "T">>}

PassFlags == {{F_FORWARD}, {F_FORWARD, F_REVCOMP}, {F_REVCOMP}}

InitRun ==
    /\ FLAGS \in PassFlags
    /\ MIN_LENGTH \in 1..2
    /\ RANDOM_ANCHOR_PROP = DefaultProp
    /\ optHist = <<>>
    /\ userLen = U64(MIN_LENGTH)
    /\ shupropTab = DefaultTab
    /\ anchorLen = -1
    /\ \E n \in 2..MaxSeqs : sequences \in [1..n -> RunPool]
    /\ j = 0
    /\ pc = "run_start"
    /\ esa = NoEsa
    /\ esaBuilds = 0
    /\ pass = "fwd"
    /\ query = <<>>
    /\ threshold = U64(0)
    /\ this_pos_Q = 0
    /\ iters = 0
    /\ lastIter = NoIter
    /\ oobRead = FALSE
    /\ out = <<>>
    /\ bn = 0 /\ bk = 0 /\ row = <<1>> /\ binom = 0

SpecRun == InitRun /\ [][RunNext]_vars

(***************************************************************************)
(* Properties of run.                                                      *)
(***************************************************************************)
\* the place of a line's block in the output: query by query in input
\* order, the forward pass before the reverse pass
BlockOf(l) == 2 * l.seq + (IF l.pass = "fwd" THEN 0 ELSE 1)

HeadersOf(seq, ps) ==
    {k \in 1..Len(out) :
        out[k].kind = "header" /\ out[k].seq = seq /\ out[k].pass = ps}

LinesOf(seq, ps) == {k \in 1..Len(out) : out[k].seq = seq /\ out[k].pass = ps}

PassEnabled(ps) ==
    IF ps = "fwd" THEN F_FORWARD \in FLAGS ELSE F_REVCOMP \in FLAGS

\* C6: sequence 0 is the reference and its index is built once, before any
\* output, and released only after the last query; the output is one block
\* per query and enabled pass, in input order, each a header immediately
\* followed by the match lines of that pass; the reference has no lines.
C6_RunOutput ==
    /\ esaBuilds <= 1
    /\ Len(out) > 0 => esaBuilds = 1
    /\ pc \notin {"run_start", "run_done"} => esa = esa_init(sequences[1])
    /\ esa = NoEsa => pc \in {"run_start", "run_done"}
    /\ pc = "run_done" => j = Len(sequences)
    /\ \A k \in 1..Len(out) : out[k].seq \in 1..(Len(sequences) - 1)
    /\ \A k \in 2..Len(out) : BlockOf(out[k - 1]) <= BlockOf(out[k])
    /\ \A k \in 1..Len(out) :
         (out[k].kind = "header")
           <=> (k = 1 \/ BlockOf(out[k - 1]) # BlockOf(out[k]))
    /\ pc = "run_done" =>
         \A seq \in 1..(Len(sequences) - 1) : \A ps \in {"fwd", "rev"} :
            IF PassEnabled(ps)
            THEN Cardinality(HeadersOf(seq, ps)) = 1
            ELSE LinesOf(seq, ps) = {}

\* C6 witness: a run over three sequences with both passes has ended and
\* has printed match lines in a forward and in a reverse block.
C6_Witness ==
    /\ pc = "run_done"
    /\ Len(sequences) = 3
    /\ FLAGS = {F_FORWARD, F_REVCOMP}
    /\ \E a, b \in MatchLines :
         /\ out[a].pass = "fwd" /\ out[b].pass = "rev"
         /\ out[a].seq = 1 /\ out[b].seq = 2

(***************************************************************************)
(* The option loop of main (tummer.c).                                     *)
(***************************************************************************)
\* case 'b'
SetBoth(F) == F \cup {F_FORWARD, F_REVCOMP}

\* case 'r' without the clearing of F_FORWARD
SetRevcompOnly(F) == F \cup {F_REVCOMP}

\* case 'r'
ClearForwardSetRevcomp(F) == (F \ {F_FORWARD}) \cup {F_REVCOMP}

\* case 'v'
MoreVerbose(F) ==
    F \cup (IF F_VERBOSE \in F THEN {F_EXTRA_VERBOSE} ELSE {F_VERBOSE})

\* what strtod and the checks of line 104 make of the argument of -p:
\* ok = FALSE when it is no number, else the number in units of 1/Scale
PArgs ==
    {[ok |-> FALSE, v |-> 0]}
      \cup {[ok |-> TRUE, v |-> x] : x \in {-1, 0, 1, Scale - 1, Scale, Scale + 1}}

\* what strtoul and the checks of line 127 make of the argument of -l:
\* ok = FALSE when it is no number, else the unsigned long:
\* 0, 2, 2^31 - 1, 2^31, 2^32, 2^32 + 2, 2^64 - 1
LArgs ==
    {[ok |-> FALSE, v |-> U64(0)]}
      \cup {[ok |-> TRUE, v |-> x] :
              x \in {U64(0), U64(2), <<Limb - 1, Limb \div 2 - 1, 0, 0>>,
                     <<0, Limb \div 2, 0, 0>>, <<0, 0, 1, 0>>, <<2, 0, 1, 0>>,
                     <<Limb - 1, Limb - 1, Limb - 1, Limb - 1>>}}

MoreOptions == pc = "opts" /\ Len(optHist) < MaxOpts

OptB ==
    /\ MoreOptions
    /\ FLAGS' = SetBoth(FLAGS)
    /\ optHist' = Append(optHist, "b")
    /\ UNCHANGED <<MIN_LENGTH, RANDOM_ANCHOR_PROP, userLen, shupropTab,
                   anchorLen, runVars, pc, anchorVars, binomVars>>

OptR ==
    /\ MoreOptions
    /\ FLAGS' = ClearForwardSetRevcomp(FLAGS)
    /\ optHist' = Append(optHist, "r")
    /\ UNCHANGED <<MIN_LENGTH, RANDOM_ANCHOR_PROP, userLen, shupropTab,
                   anchorLen, runVars, pc, anchorVars, binomVars>>

OptJ ==
    /\ MoreOptions
    /\ FLAGS' = FLAGS \cup {F_JOIN}
    /\ optHist' = Append(optHist, "j")
    /\ UNCHANGED <<MIN_LENGTH, RANDOM_ANCHOR_PROP, userLen, shupropTab,
                   anchorLen, runVars, pc, anchorVars, binomVars>>

OptV ==
    /\ MoreOptions
    /\ FLAGS' = MoreVerbose(FLAGS)
    /\ optHist' = Append(optHist, "v")
    /\ UNCHANGED <<MIN_LENGTH, RANDOM_ANCHOR_PROP, userLen, shupropTab,
                   anchorLen, runVars, pc, anchorVars, binomVars>>

\* case 'h', '?' and default: usage() prints and exits
OptH ==
    /\ MoreOptions
    /\ optHist' = Append(optHist, "h")
    /\ pc' = "exit"
    /\ UNCHANGED <<FLAGS, MIN_LENGTH, RANDOM_ANCHOR_PROP, userLen, shupropTab,
                   anchorLen, runVars, anchorVars, binomVars>>

\* case 'p': line 99-121
OptP ==
    /\ MoreOptions
    /\ \E prop \in PArgs :
         RANDOM_ANCHOR_PROP' =
            IF ~prop.ok THEN RANDOM_ANCHOR_PROP
            ELSE IF prop.v < 0 \/ prop.v > Scale THEN RANDOM_ANCHOR_PROP
            ELSE prop.v
    /\ optHist' = Append(optHist, "p")
    /\ UNCHANGED <<FLAGS, MIN_LENGTH, userLen, shupropTab, anchorLen, runVars,
                   pc, anchorVars, binomVars>>

\* case 'l': line 122-136
OptL ==
    /\ MoreOptions
    /\ \E length \in LArgs :
         IF ~length.ok
         THEN UNCHANGED <<MIN_LENGTH, userLen>>
         ELSE /\ MIN_LENGTH' = ToInt(length.v)
              /\ userLen' = length.v
    /\ optHist' = Append(optHist, "l")
    /\ UNCHANGED <<FLAGS, RANDOM_ANCHOR_PROP, shupropTab, anchorLen, runVars,
                   pc, anchorVars, binomVars>>

\* line 83-85 and 142-215: no option is left; the files are read and run
\* is called on their sequences
OptsEnd ==
    /\ pc = "opts"
    /\ pc' = "run_start"
    /\ UNCHANGED <<optVars, shupropTab, anchorLen, runVars, anchorVars,
                   binomVars>>

\* the sequences of the input files of the main specification
MainInput == <<<<"A", "C", "C">>, <<"G", "A", "C", "C">>>>

Init ==
    /\ FLAGS = {F_FORWARD}
    /\ MIN_LENGTH = 0
    /\ RANDOM_ANCHOR_PROP = DefaultProp
    /\ optHist = <<>>
    /\ userLen = U64(0)
    /\ shupropTab = DefaultTab
    /\ anchorLen = -1
    /\ sequences = MainInput
    /\ j = 0
    /\ pc = "opts"
    /\ esa = NoEsa
    /\ esaBuilds = 0
    /\ pass = "fwd"
    /\ query = <<>>
    /\ threshold = U64(0)
    /\ this_pos_Q = 0
    /\ iters = 0
    /\ lastIter = NoIter
    /\ oobRead = FALSE
    /\ out = <<>>
    /\ bn = 0 /\ bk = 0 /\ row = <<1>> /\ binom = 0

Next ==
    \/ OptB \/ OptR \/ OptJ \/ OptV \/ OptH \/ OptP \/ OptL \/ OptsEnd
    \/ RunNext

Spec == Init /\ [][Next]_vars

(***************************************************************************)
(* Properties of the options.                                              *)
(***************************************************************************)
RECURSIVE LastBR(_)
LastBR(h) ==
    IF h = <<>> THEN "none"
    ELSE IF h[Len(h)] \in {"b", "r"} THEN h[Len(h)]
    ELSE LastBR(SubSeq(h, 1, Len(h) - 1))

Passes == FLAGS \cap {F_FORWARD, F_REVCOMP}

\* C7: the passes enabled are those of the last -b or -r processed (forward
\* only when there was none), whatever other options came before or after.
C7_LastPassFlagWins ==
    CASE LastBR(optHist) = "none" -> Passes = {F_FORWARD}
      [] LastBR(optHist) = "b" -> Passes = {F_FORWARD, F_REVCOMP}
      [] LastBR(optHist) = "r" -> Passes = {F_REVCOMP}

\* C7 witness: -b, then -r, then another option: reverse complement only.
C7_Witness ==
    /\ Len(optHist) = 3
    /\ optHist[1] = "b" /\ optHist[2] = "r" /\ optHist[3] \in {"v", "l", "p", "j"}
    /\ Passes = {F_REVCOMP}

ThresholdSet == pc \in {"da_loop", "da_return"}

\* C3: the threshold is the value given with -l when that is positive and
\* minAnchorLength(p, GC, n) otherwise, and no printed match is shorter.
C3_ThresholdAsSupplied ==
    ThresholdSet =>
        /\ threshold =
             IF userLen # U64(0) THEN userLen
             ELSE U64(minAnchorLength(RANDOM_ANCHOR_PROP, 0, Len(esa.S)))
        /\ \A k \in MatchLines : GeU64(out[k].len, threshold)

(***************************************************************************)
(* The statistics specification: minAnchorLength on every probability      *)
(* that -p accepts and every shuprop that is non-decreasing and reaches 1. *)
(***************************************************************************)
InitStats ==
    /\ FLAGS = {F_FORWARD}
    /\ MIN_LENGTH = 0
    /\ RANDOM_ANCHOR_PROP \in 0..Scale
    /\ optHist = <<>>
    /\ userLen = U64(0)
    /\ shupropTab \in ShupropTabs
    /\ anchorLen = -1
    /\ sequences = MainInput
    /\ j = 0
    /\ pc = "mal_call"
    /\ esa = NoEsa
    /\ esaBuilds = 0
    /\ pass = "fwd"
    /\ query = <<>>
    /\ threshold = U64(0)
    /\ this_pos_Q = 0
    /\ iters = 0
    /\ lastIter = NoIter
    /\ oobRead = FALSE
    /\ out = <<>>
    /\ bn = 0 /\ bk = 0 /\ row = <<1>> /\ binom = 0

MinAnchorLengthCall ==
    /\ pc = "mal_call"
    /\ anchorLen' = minAnchorLength(RANDOM_ANCHOR_PROP, 0, Len(to_subject(sequences[1])))
    /\ pc' = "mal_done"
    /\ UNCHANGED <<optVars, shupropTab, runVars, anchorVars, binomVars>>

SpecStats == InitStats /\ [][MinAnchorLengthCall]_vars

\* the smallest x >= 1 with shuprop(x, g / 2, l) >= 1 - p
SmallestX ==
    Min({x \in 1..MaxX : shuprop(x, 0, 0) >= Scale - RANDOM_ANCHOR_PROP})

\* C5 as claimed: for every p in [0, 1] the value returned is x + 1 for the
\* smallest x >= 1 with shuprop(x, g / 2, l) >= 1 - p.
C5_SmallestPlusOne ==
    pc = "mal_done" => anchorLen = SmallestX + 1

\* C5 amended: that holds for p < 1; for p = 1 the loop body never runs
\* and the value returned is 1.
C5_SmallestPlusOneBelowOne ==
    pc = "mal_done" =>
        IF RANDOM_ANCHOR_PROP < Scale
        THEN anchorLen = SmallestX + 1
        ELSE anchorLen = 1

\* C5 witness: a call with 0 < p < 1 whose loop ran more than once returned.
C5_Witness ==
    /\ pc = "mal_done"
    /\ RANDOM_ANCHOR_PROP \in 1..(Scale - 1)
    /\ SmallestX >= 2
    /\ anchorLen = SmallestX + 1

(***************************************************************************)
(* The binomial specification: binomial_coefficient on every n <= MaxN and *)
(* every k <= n + 1, beside Pascal's triangle.                             *)
(***************************************************************************)
InitBinom ==
    /\ FLAGS = {F_FORWARD}
    /\ MIN_LENGTH = 0
    /\ RANDOM_ANCHOR_PROP = DefaultProp
    /\ optHist = <<>>
    /\ userLen = U64(0)
    /\ shupropTab = DefaultTab
    /\ anchorLen = -1
    /\ sequences = MainInput
    /\ j = 0
    /\ pc = "bc_call"
    /\ esa = NoEsa
    /\ esaBuilds = 0
    /\ pass = "fwd"
    /\ query = <<>>
    /\ threshold = U64(0)
    /\ this_pos_Q = 0
    /\ iters = 0
    /\ lastIter = NoIter
    /\ oobRead = FALSE
    /\ out = <<>>
    /\ bn = 0 /\ bk = 0 /\ row = <<1>> /\ binom = BinomResult(0)

BinomialCall ==
    /\ pc = "bc_call"
    /\ binom' = binomial_coefficient(bn, bk)
    /\ pc' = "bc_ret"
    /\ UNCHANGED <<optVars, shupropTab, anchorLen, runVars, anchorVars,
                   bn, bk, row>>

NextK ==
    /\ pc = "bc_ret"
    /\ bk <= bn
    /\ bk' = bk + 1
    /\ pc' = "bc_call"
    /\ UNCHANGED <<optVars, shupropTab, anchorLen, runVars, anchorVars,
                   bn, row, binom>>

\* the next row of Pascal's triangle, by additions only
RECURSIVE RowFrom(_, _)
RowFrom(r, k) ==
    IF k > Len(r) + 1 THEN <<>>
    ELSE <<(IF k > 1 THEN r[k - 1] ELSE 0) + (IF k <= Len(r) THEN r[k] ELSE 0)>>
           \o RowFrom(r, k + 1)

NextRow(r) == RowFrom(r, 1)

NextN ==
    /\ pc = "bc_ret"
    /\ bk = bn + 1
    /\ bn < MaxN
    /\ bn' = bn + 1
    /\ bk' = 0
    /\ row' = NextRow(row)
    /\ pc' = "bc_call"
    /\ UNCHANGED <<optVars, shupropTab, anchorLen, runVars, anchorVars,
                   binom>>

NextBinom == BinomialCall \/ NextK \/ NextN

SpecBinom == InitBinom /\ [][NextBinom]_vars

\* C(bn, bk), 0 for bk > bn
Exact == IF bk <= bn THEN row[bk + 1] ELSE 0

\* C10: binomial_coefficient(n, k) is the exact C(n, k) for 0 <= n <= 30 and
\* 0 <= k <= n, and 0 for k > n, with no product that overflows and no
\* division that leaves a remainder.
C10_ExactBinomial ==
    pc = "bc_ret" =>
        /\ binom.res = U64(Exact)
        /\ ~binom.overflow
        /\ ~binom.inexact

\* the same for n >= 1, where the code does agree
ExactBinomialFromOne ==
    (pc = "bc_ret" /\ bn >= 1) =>
        /\ binom.res = U64(Exact)
        /\ ~binom.overflow
        /\ ~binom.inexact

=============================================================================
